---- MODULE Spec2Model ----
(***************************************************************************)
(* Thread-local storage emulation of src/src/shims/tls.rs: the key         *)
(* registry TlsData (next_key, keys, global_dtors, dtors_running), its     *)
(* operations, the scan fetch_tls_dtor and the two platform drivers.       *)
(*                                                                         *)
(* Option<T> is a sequence of length at most one: None is <<>> and Some(x) *)
(* is <<x>>.  A BTreeMap is a function whose DOMAIN is the set of its      *)
(* keys.  Scalar 0 is the null pointer.                                    *)
(***************************************************************************)
EXTENDS Integers, Sequences, FiniteSets, TLC

VARIABLES
    target_os,      \* this.tcx.sess.target.target.target_os
    key_bits,       \* max_size.bits() of the target's key type
    next_key,       \* TlsData::next_key
    keys,           \* TlsData::keys : TlsKey -> TlsEntry
    global_dtors,   \* TlsData::global_dtors : ThreadId -> (Instance, Scalar)
    dtors_running,  \* TlsData::dtors_running
    pc,             \* where the controlling execution is
    thread_id,      \* the thread a running driver drains
    dtor,           \* the driver's local `dtor`: Option<(instance, ptr, key)>
    ret,            \* outcome of the most recent call
    log,            \* events of the draining session in progress or just ended
    keys0,          \* the registry as it was when that session started
    issued,         \* keys returned by successful create_tls_key calls, in order
    deleted,        \* keys removed by successful delete_tls_key calls
    hist,           \* per registered key and thread: the most recent store_tls,
                    \* and whether a scan has taken the value since
    tracing         \* whether the events of draining sessions are kept in log

vars == <<target_os, key_bits, next_key, keys, global_dtors, dtors_running,
          pc, thread_id, dtor, ret, log, keys0, issued, deleted, hist, tracing>>

----------------------------------------------------------------------------
(* Bounds of the exploration. *)

\* create_tls_key is explored while next_key <= MaxKey.
MaxKey == 4
\* allocation bound of the specifications that also store values and drain
MaxDrainKey == 3
\* allocation bound of the two-thread specification
MaxSpecKey == 2
\* TLS calls the guest code of all destructors of one draining session makes
MaxDtorOps == 1
\* allocation bound of the specification of thread exit on either platform
MaxExitKey == 2
\* allocation bound of the specification of draining without end
MaxLiveKey == 2
\* largest key of the registries one scan is applied to
MaxFetchKey == 4

None == <<>>
Some(x) == <<x>>

NULL == 0

----------------------------------------------------------------------------
(* Input domains.  Threads are ThreadId indices; thread 0 is the main      *)
(* thread.  Scalars are the pointer values the guest passes; Instances are *)
(* the guest functions used as destructors.                                *)

Threads == {0, 1}
Scalars == {NULL, 1, 2}
Instances == {"d1", "d3"}
GlobalInstances == {"g"}
KeyBits == {1, 2, 128}
TargetOs == {"linux", "windows"}

EmptyMap == [x \in {} |-> NULL]

Remove(f, k) == [x \in DOMAIN f \ {k} |-> f[x]]

Insert(f, k, v) == (k :> v) @@ f

\* struct TlsEntry { data, dtor }
TlsEntry(data, d) == [data |-> data, dtor |-> d]

\* InterpResult of a call: err is "none" for Ok(val), "ub" for
\* throw_ub_format!, "unsup" for throw_unsup_format!
Result(op, err, key, t, val) ==
    [op |-> op, err |-> err, key |-> key, thread |-> t, val |-> val]

\* One event of a draining session: a guest function invoked ("call", fn the
\* function, val its arguments, key the TLS key or 0), its return, a value
\* taken out of the registry by the scan ("take"), or a TLS primitive called
\* by the running guest function (ev the primitive).
Event(ev, key, val, fn) == [ev |-> ev, key |-> key, val |-> val, fn |-> fn]

InGuest == pc \in {"global_dtor", "tls_dtor", "callback"}

GuestEvents == {"create", "delete", "load", "store", "set_global_dtor"}

GuestOps(l) == Cardinality({i \in 1..Len(l) : l[i].ev \in GuestEvents})

\* the log after recording l, which stays empty when events are not kept
Rec(l) == IF tracing THEN l ELSE <<>>

\* A TLS primitive is called by the guest code of the active thread: between
\* driver runs any thread that has not reached its exit-time draining, while
\* a driver runs a guest function the drained thread.
Caller(t) ==
    \/ pc = "idle" /\ t \notin dtors_running
    \/ InGuest /\ t = thread_id /\ GuestOps(log) < MaxDtorOps

\* What a primitive's return does to the controlling execution: inside a
\* destructor an Err leaves the driver through `this.run()?`.
Returned(r, e) ==
    /\ ret' = r
    /\ pc' = IF r.err = "none" THEN pc ELSE "idle"
    /\ dtor' = IF r.err = "none" THEN dtor ELSE None
    /\ log' = IF pc = "idle" THEN <<>> ELSE Rec(Append(log, e))
    /\ keys0' = IF pc = "idle" THEN EmptyMap ELSE keys0
    /\ UNCHANGED <<target_os, key_bits, tracing, thread_id, dtors_running>>

----------------------------------------------------------------------------
(* TlsData *)

\* the capacity test with the boundary off by one
OutOfKeySpace_above(new_key, bits) == bits < 128 /\ new_key > 2 ^ bits

\* the capacity test of create_tls_key
OutOfKeySpace(new_key, bits) == bits < 128 /\ new_key >= 2 ^ bits

\* the counter left where it was
next_key_kept(new_key) == new_key

\* self.next_key += 1
next_key_after(new_key) == new_key + 1

create_tls_key(t, d, max_size, cap) ==
    /\ Caller(t)
    /\ next_key <= cap
    /\ LET new_key == next_key
           r == IF OutOfKeySpace(new_key, max_size)
                THEN Result("create", "unsup", new_key, t, 0)
                ELSE Result("create", "none", new_key, t, new_key)
       IN  /\ new_key \notin DOMAIN keys        \* unwrap_none()
           /\ next_key' = next_key_after(new_key)
           /\ keys' = Insert(keys, new_key, TlsEntry(EmptyMap, d))
           /\ issued' = IF r.err = "none" THEN Append(issued, new_key) ELSE issued
           /\ hist' = Insert(hist, new_key, EmptyMap)
           /\ Returned(r, Event("create", new_key, <<>>, ""))
    /\ UNCHANGED <<global_dtors, deleted>>

delete_tls_key(t, key) ==
    /\ Caller(t)
    /\ LET found == key \in DOMAIN keys
           r == Result("delete", IF found THEN "none" ELSE "ub", key, t, 0)
       IN  /\ keys' = Remove(keys, key)
           /\ deleted' = IF found THEN deleted \cup {key} ELSE deleted
           /\ hist' = Remove(hist, key)
           /\ Returned(r, Event("delete", key, <<>>, ""))
    /\ UNCHANGED <<next_key, global_dtors, issued>>

\* the value load_tls returns for a registered key
load_value(ks, key, t) ==
    LET data == ks[key].data
        value == IF t \in DOMAIN data THEN Some(data[t]) ELSE None
    IN  IF value # None THEN value[1] ELSE NULL

load_tls(t, key) ==
    /\ Caller(t)
    /\ LET r == IF key \in DOMAIN keys
                THEN Result("load", "none", key, t, load_value(keys, key, t))
                ELSE Result("load", "ub", key, t, 0)
       IN  Returned(r, Event("load", key, <<r.val>>, ""))
    /\ UNCHANGED <<next_key, keys, global_dtors, issued, deleted, hist>>

\* a store of no value that stores the null pointer
store_data_null(data, t, new_data) ==
    IF new_data # None THEN Insert(data, t, new_data[1]) ELSE Insert(data, t, NULL)

\* a store of no value that leaves the old value in place
store_data_kept(data, t, new_data) ==
    IF new_data # None THEN Insert(data, t, new_data[1]) ELSE data

\* the entry's data map after store_tls
store_data(data, t, new_data) ==
    IF new_data # None THEN Insert(data, t, new_data[1]) ELSE Remove(data, t)

\* this.test_null(ptr) of the callers of store_tls
test_null(ptr) == IF ptr = NULL THEN None ELSE Some(ptr)

\* a store that registers the key it does not find
store_keys_upsert(ks, key, t, new_data) ==
    IF key \in DOMAIN ks
    THEN [ks EXCEPT ![key].data = store_data(@, t, new_data)]
    ELSE Insert(ks, key, TlsEntry(store_data(EmptyMap, t, new_data), None))

\* the registry's keys after store_tls
store_keys(ks, key, t, new_data) ==
    IF key \in DOMAIN ks
    THEN [ks EXCEPT ![key].data = store_data(@, t, new_data)]
    ELSE ks

store_tls(t, key, new_data) ==
    /\ Caller(t)
    /\ LET found == key \in DOMAIN keys
           r == Result("store", IF found THEN "none" ELSE "ub", key, t, 0)
       IN  /\ keys' = store_keys(keys, key, t, new_data)
           /\ hist' = IF found
                      THEN [hist EXCEPT ![key] =
                               Insert(@, t, [by |-> "store", val |-> new_data])]
                      ELSE hist
           /\ Returned(r, Event("store", key, new_data, ""))
    /\ UNCHANGED <<next_key, global_dtors, issued, deleted>>

\* the two tests of set_global_dtor in the other order
set_global_dtor_err_swapped(running, registered) ==
    IF registered THEN "unsup" ELSE IF running THEN "ub" ELSE "none"

\* which of its two errors set_global_dtor throws, if any
set_global_dtor_err(running, registered) ==
    IF running THEN "ub" ELSE IF registered THEN "unsup" ELSE "none"

set_global_dtor(t, d, data) ==
    /\ Caller(t)
    /\ LET err == set_global_dtor_err(t \in dtors_running, t \in DOMAIN global_dtors)
       IN  /\ global_dtors' = IF err = "ub"
                              THEN global_dtors
                              ELSE Insert(global_dtors, t, <<d, data>>)
           /\ Returned(Result("set_global_dtor", err, 0, t, 0),
                       Event("set_global_dtor", 0, <<data>>, d))
    /\ UNCHANGED <<next_key, keys, issued, deleted, hist>>

\* the largest key first
Max(S) == CHOOSE x \in S : \A y \in S : x >= y

\* the first key of an ascending iteration over S
Min(S) == CHOOSE x \in S : \A y \in S : x <= y

\* a scan that leaves every value where it is
removed_kept(ks, key, t) == ks

\* a scan that takes a value only when the key has no destructor
removed_unless_dtor(ks, key, t) ==
    IF ks[key].dtor = None THEN [ks EXCEPT ![key].data = Remove(@, t)] ELSE ks

\* a scan that takes the values of all threads
removed_all(ks, key, t) == [ks EXCEPT ![key].data = EmptyMap]

\* a scan that takes a value only when the key has a destructor
removed_if_dtor(ks, key, t) ==
    IF ks[key].dtor # None THEN [ks EXCEPT ![key].data = Remove(@, t)] ELSE ks

\* entry.remove() on the data of key
removed(ks, key, t) == [ks EXCEPT ![key].data = Remove(@, t)]

\* the loop of fetch_tls_dtor over the keys of the range still to visit
RECURSIVE scan(_, _, _, _)
scan(ks, rest, t, taken) ==
    IF rest = {}
    THEN [keys |-> ks, dtor |-> None, taken |-> taken]
    ELSE LET key == Min(rest)
             entry == ks[key]
         IN  IF t \in DOMAIN entry.data
             THEN LET data_scalar == entry.data[t]
                      rm == removed(ks, key, t)
                      tk == Append(taken, Event("take", key, <<data_scalar>>, ""))
                  IN  IF entry.dtor # None
                      THEN [keys |-> rm,
                            dtor |-> Some(<<entry.dtor[1], data_scalar, key>>),
                            taken |-> tk]
                      ELSE scan(rm, rest \ {key}, t, tk)
             ELSE scan(ks, rest \ {key}, t, taken)

\* the range that starts at the key, Included(key)
range_from(ks, key) ==
    IF key # None THEN {k \in DOMAIN ks : k >= key[1]} ELSE DOMAIN ks

\* range_mut((start, Unbounded))
range(ks, key) ==
    IF key # None THEN {k \in DOMAIN ks : k > key[1]} ELSE DOMAIN ks

\* fetch_tls_dtor on registry ks: the registry it leaves, the triple it
\* returns and the values it removed
fetch_tls_dtor(ks, key, t) == scan(ks, range(ks, key), t, <<>>)

\* "Fetch next dtor after `key`", else "start over from the beginning"
fetch_next(ks, key, t) ==
    LET after == fetch_tls_dtor(ks, Some(key), t)
    IN  IF after.dtor # None
        THEN after
        ELSE LET again == fetch_tls_dtor(after.keys, None, t)
             IN  [again EXCEPT !.taken = after.taken \o @]

----------------------------------------------------------------------------
(* The platform drivers *)

DLL_PROCESS_DETACH == 0

\* a set that holds the new thread alone
running_only(running, t) == {t}

\* dtors_running.insert(thread)
running_insert(running, t) == running \cup {t}

\* an assertion that never fails
running_never(running, t) == FALSE

\* what `assert!(!dtors_running.contains(&thread), "running TLS dtors twice")`
\* fails on
running_twice(running, t) == t \in running

\* a platform test that never answers yes
is_windows_never(os) == FALSE

\* this.tcx.sess.target.target.target_os == "windows"
is_windows(os) == os = "windows"

\* the arguments run_windows_tls_dtors passes to p_thread_callback
callback_args(reason) == <<NULL, reason, NULL>>

\* the values a scan removed are no longer what load_tls returns
took(h, taken, t) ==
    [k \in DOMAIN h |->
        [u \in DOMAIN h[k] |->
            IF u = t /\ \E i \in 1..Len(taken) : taken[i].key = k
            THEN [h[k][u] EXCEPT !.by = "take"]
            ELSE h[k][u]]]

Registry == <<next_key, keys, global_dtors, issued, deleted, hist>>

\* no global destructor found
global_dtor_none(gd, t) == None

\* global_dtors.get(&thread_id)
global_dtor_of(gd, t) == IF t \in DOMAIN gd THEN Some(gd[t]) ELSE None

\* the head of the `while let Some((instance, ptr, key)) = dtor` loop, entered
\* with the result f of a fetch: call the destructor or return Ok(())
drain_loop(f, l) ==
    /\ keys' = f.keys
    /\ hist' = took(hist, f.taken, thread_id)
    /\ IF f.dtor = None
       THEN /\ pc' = "idle"
            /\ dtor' = None
            /\ log' = Rec(l \o f.taken)
            /\ ret' = Result("run_tls_dtors", "none", 0, thread_id, 0)
       ELSE LET instance == f.dtor[1][1]
                ptr == f.dtor[1][2]
                key == f.dtor[1][3]
            IN  /\ dtor' = f.dtor
                /\ ret' = Result("run_tls_dtors", "pending", 0, thread_id, 0)
                /\ IF ptr = NULL     \* "Data can't be NULL when dtor is called!"
                   THEN /\ pc' = "panic"
                        /\ log' = Rec(l \o f.taken)
                   ELSE /\ pc' = "tls_dtor"
                        /\ log' = Rec((l \o f.taken) \o <<Event("call", key, <<ptr>>, instance)>>)

run_tls_dtors_for_active_thread(t) ==
    /\ pc = "idle"
    /\ IF is_windows(target_os)
       THEN /\ ret' = Result("run_tls_dtors", "none", 0, t, 0)
            /\ log' = <<>>
            /\ keys0' = EmptyMap
            /\ UNCHANGED <<pc, thread_id, dtors_running>>
       ELSE IF running_twice(dtors_running, t)
       THEN /\ pc' = "panic"
            /\ thread_id' = t
            /\ log' = <<>>
            /\ keys0' = EmptyMap
            /\ UNCHANGED <<ret, dtors_running>>
       ELSE /\ dtors_running' = running_insert(dtors_running, t)
            /\ thread_id' = t
            /\ keys0' = keys
            /\ ret' = Result("run_tls_dtors", "pending", 0, t, 0)
            /\ IF global_dtor_of(global_dtors, t) # None
               THEN LET instance == global_dtor_of(global_dtors, t)[1][1]
                        data == global_dtor_of(global_dtors, t)[1][2]
                    IN  /\ pc' = "global_dtor"
                        /\ log' = Rec(<<Event("call", 0, <<data>>, instance)>>)
               ELSE /\ pc' = "fetch"
                    /\ log' = <<>>
    /\ UNCHANGED <<target_os, key_bits, tracing, dtor, Registry>>

\* this.run() of the global destructor comes back
global_dtor_returns ==
    /\ pc = "global_dtor"
    /\ pc' = "fetch"
    /\ log' = Rec(Append(log, Event("return", 0, <<>>, "")))
    /\ UNCHANGED <<target_os, key_bits, tracing, thread_id, dtors_running, dtor, ret,
                   keys0, Registry>>

\* the has_terminated assertion and the first fetch_tls_dtor(None, thread_id)
first_fetch(has_terminated) ==
    /\ pc = "fetch"
    /\ IF ~has_terminated    \* "running TLS dtors for non-terminated thread"
       THEN /\ pc' = "panic"
            /\ UNCHANGED <<keys, dtor, ret, log, hist>>
       ELSE drain_loop(fetch_tls_dtor(keys, None, thread_id), log)
    /\ UNCHANGED <<target_os, key_bits, tracing, thread_id, dtors_running, keys0,
                   next_key, global_dtors, issued, deleted>>

\* this.run() of a per-key destructor comes back: fetch the next one
tls_dtor_returns ==
    /\ pc = "tls_dtor"
    /\ drain_loop(fetch_next(keys, dtor[1][3], thread_id),
                  Append(log, Event("return", dtor[1][3], <<>>, "")))
    /\ UNCHANGED <<target_os, key_bits, tracing, thread_id, dtors_running, keys0,
                   next_key, global_dtors, issued, deleted>>

run_windows_tls_dtors(active_thread) ==
    /\ pc = "idle"
    /\ IF ~is_windows(target_os)
       THEN /\ ret' = Result("run_windows_tls_dtors", "none", 0, active_thread, 0)
            /\ log' = <<>>
            /\ keys0' = EmptyMap
            /\ UNCHANGED <<pc, thread_id, dtors_running>>
       ELSE IF active_thread # 0      \* "concurrency on Windows not supported"
               \/ running_twice(dtors_running, active_thread)
       THEN /\ pc' = "panic"
            /\ thread_id' = active_thread
            /\ log' = <<>>
            /\ keys0' = EmptyMap
            /\ UNCHANGED <<ret, dtors_running>>
       ELSE /\ dtors_running' = running_insert(dtors_running, active_thread)
            /\ thread_id' = active_thread
            /\ keys0' = keys
            /\ ret' = Result("run_windows_tls_dtors", "pending", 0, active_thread, 0)
            /\ pc' = "callback"
            /\ log' = Rec(<<Event("call", 0, callback_args(DLL_PROCESS_DETACH),
                                  "p_thread_callback")>>)
    /\ UNCHANGED <<target_os, key_bits, tracing, dtor, Registry>>

\* this.run() of p_thread_callback comes back
callback_returns ==
    /\ pc = "callback"
    /\ pc' = "idle"
    /\ log' = Rec(Append(log, Event("return", 0, <<>>, "")))
    /\ ret' = Result("run_windows_tls_dtors", "none", 0, thread_id, 0)
    /\ UNCHANGED <<target_os, key_bits, tracing, thread_id, dtors_running, dtor, keys0,
                   Registry>>

----------------------------------------------------------------------------
(* Specifications *)

\* TlsData::default() on a target chosen among os and bits
Default(os, bits) ==
    /\ target_os \in os
    /\ key_bits \in bits
    /\ next_key = 1
    /\ keys = EmptyMap
    /\ global_dtors = EmptyMap
    /\ dtors_running = {}
    /\ pc = "idle"
    /\ thread_id = 0
    /\ dtor = None
    /\ ret = Result("default", "none", 0, 0, 0)
    /\ log = <<>>
    /\ keys0 = EmptyMap
    /\ issued = <<>>
    /\ deleted = {}
    /\ hist = EmptyMap

\* the same with the events of draining sessions kept
InitOn(os, bits) == Default(os, bits) /\ tracing = TRUE

Dtors(I) == {None} \cup {Some(i) : i \in I}

\* Key allocation alone: every sequence of create_tls_key and delete_tls_key
\* calls on a fresh registry.
InitKeys == InitOn({"linux"}, KeyBits)

NextKeys ==
    \/ \E d \in Dtors({"d1"}) : create_tls_key(0, d, key_bits, MaxKey)
    \/ \E key \in 0..(MaxKey + 1) : delete_tls_key(0, key)

SpecKeys == InitKeys /\ [][NextKeys]_vars

\* Values stored, loaded and drained: two threads call the per-key
\* primitives on up to MaxSpecKey keys and exit through the driver of their
\* platform.
Init == InitOn(TargetOs, {128})

Next ==
    \/ \E t \in Threads, d \in Dtors({"d1"}) :
          create_tls_key(t, d, key_bits, MaxSpecKey)
    \/ \E t \in Threads, key \in 0..MaxSpecKey : delete_tls_key(t, key)
    \/ \E t \in Threads, key \in 0..MaxSpecKey : load_tls(t, key)
    \/ \E t \in Threads, key \in 0..MaxSpecKey, ptr \in Scalars :
          store_tls(t, key, test_null(ptr))
    \/ \E t \in Threads : run_tls_dtors_for_active_thread(t)
    \/ \E has_terminated \in BOOLEAN : first_fetch(has_terminated)
    \/ tls_dtor_returns
    \/ \E t \in Threads : run_windows_tls_dtors(t)
    \/ callback_returns

Spec == Init /\ [][Next]_vars

\* Draining on the multi-pass platform: one thread fills up to MaxDrainKey
\* keys and exits; its destructors store a fresh value or delete a key.
InitDrain == InitOn({"linux"}, {128})

NextDrain ==
    \/ \E d \in Dtors(Instances) : create_tls_key(0, d, key_bits, MaxDrainKey)
    \/ \E key \in 1..MaxDrainKey, ptr \in {1, 2} :
          pc = "idle" /\ store_tls(0, key, test_null(ptr))
    \/ \E d \in GlobalInstances, data \in {1, 2} : set_global_dtor(0, d, data)
    \/ \E key \in 1..MaxDrainKey : InGuest /\ store_tls(0, key, test_null(3))
    \/ \E key \in 1..MaxDrainKey : InGuest /\ delete_tls_key(0, key)
    \/ run_tls_dtors_for_active_thread(0)
    \/ global_dtor_returns
    \/ \E has_terminated \in BOOLEAN : first_fetch(has_terminated)
    \/ tls_dtor_returns

SpecDrain == InitDrain /\ [][NextDrain]_vars

\* Thread exit on either platform: two threads with values under up to
\* MaxExitKey keys and global destructors exit through the drivers.
InitExit == InitOn(TargetOs, {128})

NextExit ==
    \/ \E t \in Threads, d \in Dtors({"d1"}) :
          create_tls_key(t, d, key_bits, MaxExitKey)
    \/ \E t \in Threads, key \in 1..MaxExitKey : store_tls(t, key, test_null(1))
    \/ \E t \in Threads, d \in GlobalInstances, data \in {1, 2} :
          set_global_dtor(t, d, data)
    \/ \E t \in Threads : run_tls_dtors_for_active_thread(t)
    \/ global_dtor_returns
    \/ \E has_terminated \in BOOLEAN : first_fetch(has_terminated)
    \/ tls_dtor_returns
    \/ \E t \in Threads : run_windows_tls_dtors(t)
    \/ callback_returns

SpecExit == InitExit /\ [][NextExit]_vars

\* Draining without end: as SpecDrain on up to MaxLiveKey keys, with no bound
\* on the stores the destructors make and no record of the events.  The
\* driver is one sequential execution that goes on whenever it can, and
\* every guest function it runs returns.
InitLive == Default({"linux"}, {128}) /\ tracing = FALSE

guest_stores == \E key \in 1..MaxLiveKey : InGuest /\ store_tls(0, key, test_null(3))

driver_fetches == \E has_terminated \in BOOLEAN : first_fetch(has_terminated)

NextLive ==
    \/ \E d \in Dtors(Instances) : create_tls_key(0, d, key_bits, MaxLiveKey)
    \/ \E key \in 1..MaxLiveKey, ptr \in {1, 2} :
          pc = "idle" /\ store_tls(0, key, test_null(ptr))
    \/ \E d \in GlobalInstances : set_global_dtor(0, d, 1)
    \/ guest_stores
    \/ run_tls_dtors_for_active_thread(0)
    \/ global_dtor_returns
    \/ driver_fetches
    \/ tls_dtor_returns

\* One scan: fetch_tls_dtor applied once, for any thread and any last key, to
\* any registry of keys up to MaxFetchKey in which each thread has stored
\* its own value under some of the keys.
ValueOf(t) == t + 1

Entries ==
    {TlsEntry([t \in T |-> ValueOf(t)], d) : T \in SUBSET Threads, d \in Dtors(Instances)}

Registries == UNION {[S -> Entries] : S \in SUBSET (1..MaxFetchKey)}

InitFetch ==
    /\ target_os = "linux"
    /\ key_bits = 128
    /\ tracing = TRUE
    /\ next_key = MaxFetchKey + 1
    /\ keys \in Registries
    /\ global_dtors = EmptyMap
    /\ dtors_running = {}
    /\ pc = "idle"
    /\ thread_id = 0
    /\ dtor = None
    /\ ret = Result("store", "none", 0, 0, 0)
    /\ log = <<>>
    /\ keys0 = EmptyMap
    /\ issued = [i \in 1..MaxFetchKey |-> i]
    /\ deleted = (1..MaxFetchKey) \ DOMAIN keys
    /\ hist = [k \in DOMAIN keys |->
                  [t \in DOMAIN keys[k].data |->
                      [by |-> "store", val |-> Some(keys[k].data[t])]]]

\* one call fetch_tls_dtor(key, t): ret records the arguments (val is 1 for
\* Some(key), 0 for None), dtor the result, log the values removed
fetch(key, t) ==
    /\ pc = "idle"
    /\ LET f == fetch_tls_dtor(keys, key, t)
       IN  /\ keys' = f.keys
           /\ dtor' = f.dtor
           /\ log' = Rec(f.taken)
           /\ hist' = took(hist, f.taken, t)
    /\ pc' = "fetched"
    /\ thread_id' = t
    /\ keys0' = keys
    /\ ret' = IF key # None
              THEN Result("fetch_tls_dtor", "none", key[1], t, 1)
              ELSE Result("fetch_tls_dtor", "none", 0, t, 0)
    /\ UNCHANGED <<target_os, key_bits, tracing, dtors_running, next_key,
                   global_dtors, issued, deleted>>

NextFetch ==
    \E key \in {None} \cup {Some(k) : k \in 0..MaxFetchKey}, t \in Threads :
        fetch(key, t)

SpecFetch == InitFetch /\ [][NextFetch]_vars

SpecLive ==
    /\ InitLive
    /\ [][NextLive]_vars
    /\ WF_vars(global_dtor_returns)
    /\ WF_vars(driver_fetches)
    /\ WF_vars(tls_dtor_returns)
----------------------------------------------------------------------------
(* Key allocation (SpecKeys) *)

StrictlyIncreasing(s) == \A i, j \in 1..Len(s) : i < j => s[i] < s[j]

\* C1: the keys returned by successful create_tls_key calls are pairwise
\* distinct and strictly increasing, the first one is 1, 0 is never returned,
\* and a key just returned was never deleted before.
C1_KeysIncreaseNoReuse ==
    /\ StrictlyIncreasing(issued)
    /\ \A i \in 1..Len(issued) : issued[i] # 0
    /\ Len(issued) > 0 => issued[1] = 1
    /\ (ret.op = "create" /\ ret.err = "none") =>
          /\ Len(issued) > 0
          /\ ret.val = issued[Len(issued)]
          /\ ret.val \notin deleted

\* C1 witness: a third key is returned after the first was deleted
C1_Witness ==
    /\ ret.op = "create" /\ ret.err = "none"
    /\ Len(issued) >= 3
    /\ issued[1] \in deleted

\* C2: with max_key_bits = b < 128 create_tls_key fails with the unsupported
\* (capacity) error exactly when the key it allocates is >= 2^b and returns
\* that key otherwise; with b = 2 the calls return 1, 2, 3 and the fourth
\* fails.
C2_CapacityBoundary ==
    (ret.op = "create" /\ key_bits < 128) =>
        /\ ret.key = next_key - 1
        /\ ret.err \in {"none", "unsup"}
        /\ ret.err = "unsup" <=> ret.key >= 2 ^ key_bits
        /\ ret.err = "none" => ret.val = ret.key
        /\ key_bits = 2 =>
              /\ ret.key \in {1, 2, 3} => (ret.err = "none" /\ ret.val = ret.key)
              /\ ret.key = 4 => (ret.err = "unsup" /\ issued = <<1, 2, 3>>)

\* C2 witness: the fourth call on a 2-bit target fails after 1, 2, 3
C2_Witness ==
    /\ key_bits = 2
    /\ ret.op = "create" /\ ret.err = "unsup" /\ ret.key = 4
    /\ issued = <<1, 2, 3>>

\* C3: every key present in the registry is below 2^max_key_bits, also
\* after a create_tls_key call that failed with the capacity error.
C3_RegisteredKeysFit ==
    key_bits < 128 => \A k \in DOMAIN keys : k < 2 ^ key_bits
----------------------------------------------------------------------------
(* Stored values (Spec) *)

\* C4: delete_tls_key, load_tls and store_tls on a key that is not registered
\* (never created, or deleted) fail with the UB error and leave the keys, the
\* stored values, the destructor references, the key counter and the global
\* destructors as they were.
C4_UnknownKeyIsUB ==
    [][\A t \in Threads, key \in 0..MaxSpecKey :
         (/\ key \notin DOMAIN keys
          /\ \/ delete_tls_key(t, key)
             \/ load_tls(t, key)
             \/ \E ptr \in Scalars : store_tls(t, key, test_null(ptr)))
         => (/\ ret'.err = "ub"
             /\ ret'.key = key
             /\ UNCHANGED <<next_key, keys, global_dtors, dtors_running>>)]_vars

\* C4 witness: a call on a deleted key failed while another key holds a value
C4_Witness ==
    /\ ret.op \in {"delete", "load", "store"}
    /\ ret.err = "ub"
    /\ ret.key \in deleted
    /\ \E k \in DOMAIN keys : keys[k].data # EmptyMap

\* the value of the most recent store_tls for key k and thread t, NULL when
\* there was none or it passed no value
LastStored(k, t) ==
    IF t \in DOMAIN hist[k] /\ hist[k][t].val # None
    THEN hist[k][t].val[1]
    ELSE NULL

\* whether a scan of the draining driver took the value since that store
TakenSince(k, t) == t \in DOMAIN hist[k] /\ hist[k][t].by = "take"

\* C5 as stated: load_tls on a registered key succeeds and returns the value
\* of the most recent store_tls for that key and thread, NULL when there was
\* none or it passed no value.
C5_LoadReturnsLastStore ==
    ret.op = "load" =>
        /\ ret.err = "none" <=> ret.key \in DOMAIN keys
        /\ ret.err = "none" => ret.val = LastStored(ret.key, ret.thread)

\* C5 amended: ... or NULL when a scan of the draining driver has taken the
\* value since that store.
C5_LoadReturnsLastStoreUnlessTaken ==
    ret.op = "load" =>
        /\ ret.err = "none" <=> ret.key \in DOMAIN keys
        /\ ret.err = "none" =>
              ret.val = IF TakenSince(ret.key, ret.thread)
                        THEN NULL
                        ELSE LastStored(ret.key, ret.thread)

\* C5 witness: a load returns the thread's own value while the other thread
\* holds a different one under the same key
C5_Witness ==
    /\ ret.op = "load" /\ ret.err = "none" /\ ret.val # NULL
    /\ \E u \in DOMAIN keys[ret.key].data :
          u # ret.thread /\ keys[ret.key].data[u] # ret.val
    /\ \E k \in DOMAIN keys : k # ret.key /\ keys[k].data # EmptyMap
----------------------------------------------------------------------------
(* Draining (SpecDrain) *)

\* C6: set_global_dtor fails with the UB error when the thread is in
\* dtors_running, whether or not it has a global destructor; fails with the
\* unsupported error when it is not but has one registered; otherwise it
\* succeeds and the pair is the thread's global destructor.
C6_SetGlobalDtorOutcomes ==
    [][\A t \in Threads, d \in GlobalInstances, data \in Scalars :
         set_global_dtor(t, d, data) =>
            /\ ret'.op = "set_global_dtor"
            /\ t \in dtors_running => ret'.err = "ub"
            /\ (t \notin dtors_running /\ t \in DOMAIN global_dtors) =>
                  ret'.err = "unsup"
            /\ (t \notin dtors_running /\ t \notin DOMAIN global_dtors) =>
                  /\ ret'.err = "none"
                  /\ t \in DOMAIN global_dtors'
                  /\ global_dtors'[t] = <<d, data>>]_vars

\* C6 witness: a destructor of a thread that has a global destructor tries to
\* set one while the thread is drained, and gets the UB error
C6_Witness ==
    /\ ret.op = "set_global_dtor" /\ ret.err = "ub"
    /\ ret.thread \in dtors_running
    /\ ret.thread \in DOMAIN global_dtors

\* the multi-pass driver is at work for thread_id
Draining == pc \in {"global_dtor", "fetch", "tls_dtor"}

\* the multi-pass driver has just returned Ok(()) for thread_id
Drained ==
    /\ pc = "idle"
    /\ target_os # "windows"
    /\ ret.op = "run_tls_dtors" /\ ret.err = "none"

IsDtorCall(e) == e.ev = "call" /\ e.key # 0

\* the per-key destructor invocations of the session, in order
Calls(l) ==
    LET c == SelectSeq(l, IsDtorCall)
    IN  [i \in 1..Len(c) |-> <<c[i].fn, c[i].val[1], c[i].key>>]

RECURSIVE Ascending(_)
Ascending(S) ==
    IF S = {}
    THEN <<>>
    ELSE LET least == CHOOSE x \in S : \A y \in S : x <= y
         IN  <<least>> \o Ascending(S \ {least})

\* the keys of registry ks with a destructor and a value for thread t
WithDtorAndValue(ks, t) ==
    {k \in DOMAIN ks : ks[k].dtor # None /\ t \in DOMAIN ks[k].data}

\* their destructors with the stored values, by ascending key
ExpectedCalls(ks, t) ==
    LET a == Ascending(WithDtorAndValue(ks, t))
    IN  [i \in 1..Len(a) |-> <<ks[a[i]].dtor[1], ks[a[i]].data[t], a[i]>>]

NoGuest(l, ev) == \A i \in 1..Len(l) : l[i].ev # ev

\* nothing is left for thread t under the keys that had no destructor
DtorlessCleared(ks0, ks, t) ==
    \A k \in DOMAIN ks0 \cap DOMAIN ks :
        ks0[k].dtor = None => t \notin DOMAIN ks[k].data

\* C7 as stated: when no invoked destructor stores a TLS value, the driver
\* invokes, by ascending key and once each, the destructor of every key that
\* had a destructor and a value for the thread, with that value, and clears
\* the values under keys with no destructor without invoking anything.
C7_InertDtorsRunOnceAscending ==
    (Drained /\ NoGuest(log, "store")) =>
        /\ Calls(log) = ExpectedCalls(keys0, thread_id)
        /\ DtorlessCleared(keys0, keys, thread_id)

\* C7 amended: ... when no invoked destructor stores a TLS value or deletes
\* a TLS key.
C7_InertDtorsNoDeleteRunOnceAscending ==
    (Drained /\ NoGuest(log, "store") /\ NoGuest(log, "delete")) =>
        /\ Calls(log) = ExpectedCalls(keys0, thread_id)
        /\ DtorlessCleared(keys0, keys, thread_id)

\* keys A < B < C are all the keys; A and C have a destructor, B has none,
\* each holds a value for the thread, which has no global destructor
ScenarioABC(A, B, C) ==
    /\ DOMAIN keys0 = {A, B, C}
    /\ A < B /\ B < C
    /\ thread_id \notin DOMAIN global_dtors
    /\ keys0[A].dtor # None /\ keys0[B].dtor = None /\ keys0[C].dtor # None
    /\ \A k \in {A, B, C} : thread_id \in DOMAIN keys0[k].data

\* C7 witness: the driver returned after d1(v1) then d3(v3) on keys
\* A(d1, v1), B(no destructor, v2), C(d3, v3), no destructor calling anything
C7_Witness ==
    /\ Drained
    /\ GuestOps(log) = 0
    /\ \E A, B, C \in DOMAIN keys0 :
          /\ ScenarioABC(A, B, C)
          /\ keys0[A].dtor # keys0[C].dtor
          /\ keys0[A].data[thread_id] # keys0[C].data[thread_id]
          /\ Calls(log) = << <<keys0[A].dtor[1], keys0[A].data[thread_id], A>>,
                             <<keys0[C].dtor[1], keys0[C].data[thread_id], C>> >>

\* the only TLS call made by guest code in the session so far is a store of
\* a fresh value under B, made while the destructor of A runs
D1StoredB(A, B) ==
    /\ GuestOps(log) = 1
    /\ \E i \in 2..Len(log) :
          /\ log[i].ev = "store" /\ log[i].key = B
          /\ log[i].val # None
          /\ log[i].val[1] # keys0[B].data[thread_id]
          /\ log[i - 1].ev = "call" /\ log[i - 1].key = A

CallOf(ks, k, t) == <<ks[k].dtor[1], ks[k].data[t], k>>

IsPrefix(p, q) == Len(p) <= Len(q) /\ \A i \in 1..Len(p) : p[i] = q[i]

\* C8: with A(d1, v1), B(no destructor, v2), C(d3, v3) and d1 storing a fresh
\* value under B, the driver invokes d1(v1) then d3(v3) and nothing else,
\* returns, and B then holds no value for the thread.
C8_ScenarioTwoInvocations ==
    \A A, B, C \in DOMAIN keys0 :
        (ScenarioABC(A, B, C) /\ D1StoredB(A, B)) =>
            LET both == << CallOf(keys0, A, thread_id), CallOf(keys0, C, thread_id) >>
            IN  /\ pc # "panic"
                /\ IsPrefix(Calls(log), both)
                /\ Drained =>
                      /\ Calls(log) = both
                      /\ thread_id \notin DOMAIN keys[B].data

\* C8 witness: the driver has returned in that scenario
C8_Witness ==
    /\ Drained
    /\ \E A, B, C \in DOMAIN keys0 : ScenarioABC(A, B, C) /\ D1StoredB(A, B)

\* the destructor of key k is running
Running(k) == pc = "tls_dtor" /\ dtor[1][3] = k

Index(l, ev, k) == CHOOSE i \in 1..Len(l) : l[i].ev = ev /\ l[i].key = k

Has(l, ev, k) == \E i \in 1..Len(l) : l[i].ev = ev /\ l[i].key = k

\* C9 as stated: in that scenario the fresh value is still under B while
\* d3(v3) runs, and is taken only by a scan made after d3 returned.
C9_FreshValueOutlivesD3 ==
    \A A, B, C \in DOMAIN keys0 :
        (ScenarioABC(A, B, C) /\ D1StoredB(A, B)) =>
            /\ Running(C) => thread_id \in DOMAIN keys[B].data
            /\ Drained =>
                  \E i \in 1..Len(log) :
                      /\ log[i].ev = "take" /\ log[i].key = B
                      /\ i > Index(log, "return", C)

\* C9 amended: in that scenario the fresh value under B is taken, with no
\* invocation, by the scan that resumes after A, before d3(v3) is invoked;
\* B holds no value while d3 runs, and the scans made after d3 returned
\* take nothing.
C9_FreshValueTakenBeforeD3 ==
    \A A, B, C \in DOMAIN keys0 :
        (ScenarioABC(A, B, C) /\ D1StoredB(A, B)) =>
            /\ Running(C) => thread_id \notin DOMAIN keys[B].data
            /\ Has(log, "call", C) =>
                  \E i \in 1..Len(log) :
                      /\ log[i].ev = "take" /\ log[i].key = B
                      /\ log[i].val = log[Index(log, "store", B)].val
                      /\ i > Index(log, "return", A)
                      /\ i < Index(log, "call", C)
            /\ Drained =>
                  \A i \in 1..Len(log) :
                      log[i].ev = "take" => i < Index(log, "return", C)

\* C9 witness: d3 runs after d1 stored the fresh value under B
C9_Witness ==
    \E A, B, C \in DOMAIN keys0 :
        ScenarioABC(A, B, C) /\ D1StoredB(A, B) /\ Running(C)

\* the invocations of a global destructor in the session
GlobalCalls(l) == {i \in 1..Len(l) : l[i].ev = "call" /\ l[i].key = 0}

\* C10: a multi-pass driver run for a thread with a global destructor
\* invokes it exactly once, with its registered argument, and it has returned
\* before the first value is taken and the first per-key destructor is
\* invoked; for a thread with none, no global destructor is invoked.
C10_GlobalDtorOnceFirst ==
    (Draining \/ Drained) =>
        IF thread_id \in DOMAIN global_dtors
        THEN /\ GlobalCalls(log) = {1}
             /\ log[1] = Event("call", 0, <<global_dtors[thread_id][2]>>,
                               global_dtors[thread_id][1])
             /\ \A i \in 1..Len(log) :
                   (log[i].ev = "take" \/ IsDtorCall(log[i])) =>
                      \E j \in 2..(i - 1) : log[j].ev = "return" /\ log[j].key = 0
        ELSE GlobalCalls(log) = {}

\* C10 witness: the driver returned after the global destructor and then a
\* per-key destructor ran
C10_Witness ==
    /\ Drained
    /\ thread_id \in DOMAIN global_dtors
    /\ Len(Calls(log)) >= 1
----------------------------------------------------------------------------
(* Thread exit on either platform (SpecExit) *)

\* the single-callback driver is at work for thread_id, or has just returned
\* Ok(())
WindowsSession ==
    /\ target_os = "windows"
    /\ \/ pc = "callback"
       \/ /\ pc = "idle"
          /\ ret.op = "run_windows_tls_dtors" /\ ret.err = "none"

\* the values stored in registry ks, per key and thread
Values(ks) == [k \in DOMAIN ks |-> ks[k].data]

\* C11: on Windows run_windows_tls_dtors invokes p_thread_callback exactly
\* once per session, with (null, DLL_PROCESS_DETACH, null), invokes no
\* per-key and no global destructor and takes or clears no stored value,
\* whatever keys, values and global destructors exist; and there
\* run_tls_dtors_for_active_thread does nothing.
C11_WindowsCallbackOnce ==
    /\ [](WindowsSession =>
            /\ {i \in 1..Len(log) : log[i].ev = "call"} = {1}
            /\ log[1] = Event("call", 0, <<NULL, DLL_PROCESS_DETACH, NULL>>,
                              "p_thread_callback")
            /\ \A i \in 1..Len(log) : log[i].ev # "take"
            /\ GuestOps(log) = 0 => Values(keys) = Values(keys0))
    /\ [][\A t \in Threads :
            /\ (target_os = "windows" /\ run_windows_tls_dtors(t)) =>
                  UNCHANGED <<keys, global_dtors, next_key>>
            /\ (target_os = "windows" /\ callback_returns) =>
                  UNCHANGED <<keys, global_dtors, next_key>>
            /\ (target_os = "windows" /\ run_tls_dtors_for_active_thread(t)) =>
                  /\ UNCHANGED <<keys, global_dtors, next_key, dtors_running, pc>>
                  /\ ret'.err = "none"]_vars

\* C11 witness: the Windows driver has returned for a thread that has a
\* global destructor and a value under a key with a destructor
C11_Witness ==
    /\ WindowsSession
    /\ pc = "idle"
    /\ thread_id \in DOMAIN global_dtors
    /\ \E k \in DOMAIN keys :
          keys[k].dtor # None /\ thread_id \in DOMAIN keys[k].data
    /\ Cardinality(DOMAIN keys) = MaxExitKey
----------------------------------------------------------------------------
(* Draining to the fixpoint (SpecDrain) *)

\* thread t has a value under some registered key of ks
HoldsValue(ks, t) == \E k \in DOMAIN ks : t \in DOMAIN ks[k].data

\* a destructor running for key k stored a value under key j, which is
\* before, at or after k as rel says
StoredDuring(l, rel) ==
    \E i \in 1..Len(l), j \in 1..Len(l) :
        /\ i < j
        /\ IsDtorCall(l[i])
        /\ l[j].ev = "store" /\ l[j].val # None
        /\ \A m \in (i + 1)..(j - 1) : l[m].ev \notin {"call", "return"}
        /\ CASE rel = "earlier" -> l[j].key < l[i].key
             [] rel = "same" -> l[j].key = l[i].key
             [] OTHER -> l[j].key > l[i].key

\* C12: when run_tls_dtors_for_active_thread returns Ok(()) for a thread, no
\* registered key holds a value for it, with or without a destructor, also
\* when destructors stored values under earlier, the same or later keys.
C12_DrainedLeavesNoValue ==
    Drained => ~HoldsValue(keys, thread_id)

\* C12 witness: the driver returned after a destructor stored a value under
\* an earlier key that has a destructor, which was then invoked in a second
\* pass
C12_Witness ==
    /\ Drained
    /\ StoredDuring(log, "earlier")
    /\ \E i, j \in 1..Len(log) :
          /\ i < j
          /\ log[i].ev = "store"
          /\ IsDtorCall(log[j]) /\ log[j].key = log[i].key
          /\ log[j].val = log[i].val
----------------------------------------------------------------------------
(* The drivers' bookkeeping (Spec) *)

\* the driver of the platform starts draining thread t
DriverStarts(t) ==
    \/ target_os # "windows" /\ run_tls_dtors_for_active_thread(t)
    \/ target_os = "windows" /\ run_windows_tls_dtors(t)

\* C13: dtors_running is a one-way latch: a thread enters it only in the
\* step in which a platform driver starts draining that thread, and no step
\* (a return of the driver, a key deletion, any other call) takes a thread
\* out of it.
C13_DtorsRunningLatch ==
    [][/\ dtors_running \subseteq dtors_running'
       /\ \A t \in Threads :
             (t \notin dtors_running /\ t \in dtors_running') => DriverStarts(t)]_vars

\* C13 witness: a thread deletes a key after the other thread's draining has
\* ended, and the drained thread is still in the set
C13_Witness ==
    /\ pc = "idle"
    /\ ret.op = "delete" /\ ret.err = "none"
    /\ dtors_running # {}
    /\ ret.thread \notin dtors_running
----------------------------------------------------------------------------
(* Termination of draining (SpecLive) *)

\* C14 as stated: once draining has started it eventually completes or
\* aborts, whatever the destructors do, also when they store a new value
\* each time they are invoked.
C14_DrainingEnds == Draining ~> ~Draining

\* C14 amended: ... provided the destructors store values only finitely many
\* times: either guest code stores again and again for ever, or draining, once
\* started, ends.
C14_DrainingEndsUnlessStoresForEver ==
    ([]<><<guest_stores>>_vars) \/ (Draining ~> ~Draining)

\* C14 witness: the driver returned after taking a value that a destructor
\* had stored
C14_Witness ==
    /\ pc = "idle"
    /\ ret.op = "run_tls_dtors" /\ ret.err = "none"
    /\ thread_id \in dtors_running
    /\ \E k \in DOMAIN hist :
          /\ thread_id \in DOMAIN hist[k]
          /\ hist[k][thread_id] = [by |-> "take", val |-> Some(3)]
          /\ keys[k].dtor # None
----------------------------------------------------------------------------
(* One scan (SpecFetch) *)

\* a call fetch_tls_dtor(lastKey, thread_id) has returned; ret holds lastKey
Fetched == pc = "fetched"

\* key k lies in the range the call scans
After(k) == ret.val = 0 \/ k > ret.key

\* the keys of that range that had a destructor and a value for the thread
Candidates ==
    {k \in DOMAIN keys0 :
        After(k) /\ keys0[k].dtor # None /\ thread_id \in DOMAIN keys0[k].data}

Least(S) == CHOOSE x \in S : \A y \in S : x <= y

\* thread t has under key k of the registry what it had before the call
Untouched(k, t) ==
    /\ t \in DOMAIN keys[k].data <=> t \in DOMAIN keys0[k].data
    /\ t \in DOMAIN keys0[k].data => keys[k].data[t] = keys0[k].data[t]

\* C15: fetch_tls_dtor(lastKey, t) returns (destructor, value, k) for the
\* smallest registered key k > lastKey (smallest of all when lastKey is none)
\* that has a destructor and a value for t, and none when there is no such
\* key; t's value is then gone from k and from every key scanned before k
\* (from all scanned keys when the result is none), and t's values under keys
\* at or below lastKey and above k are as they were.
C15_FetchReturnsLeastCandidate ==
    Fetched =>
        /\ DOMAIN keys = DOMAIN keys0
        /\ \A j \in DOMAIN keys0 : ~After(j) => Untouched(j, thread_id)
        /\ IF Candidates = {}
           THEN /\ dtor = None
                /\ \A j \in DOMAIN keys0 :
                      After(j) => thread_id \notin DOMAIN keys[j].data
           ELSE LET k == Least(Candidates)
                IN  /\ dtor = Some(<<keys0[k].dtor[1], keys0[k].data[thread_id], k>>)
                    /\ \A j \in DOMAIN keys0 :
                          /\ (After(j) /\ j <= k) =>
                                thread_id \notin DOMAIN keys[j].data
                          /\ j > k => Untouched(j, thread_id)

\* C15 witness: a scan after a last key that holds a value passed a key with
\* a value and no destructor, returned the next key and left a value above it
C15_Witness ==
    /\ Fetched
    /\ ret.val = 1
    /\ dtor # None
    /\ \E i, j, m \in DOMAIN keys0 :
          /\ i <= ret.key /\ ret.key < j /\ j < dtor[1][3] /\ dtor[1][3] < m
          /\ thread_id \in DOMAIN keys[i].data
          /\ keys0[j].dtor = None /\ thread_id \in DOMAIN keys0[j].data
          /\ thread_id \in DOMAIN keys[m].data
----------------------------------------------------------------------------
(* Remove before invoke (Spec) *)

\* the position in l of the most recent destructor invocation
LastCall(l) ==
    LET c == {i \in 1..Len(l) : IsDtorCall(l[i])}
    IN  CHOOSE i \in c : \A j \in c : j <= i

\* guest code stored under key k, or deleted it, after position i of l
TouchedSince(l, k, i) ==
    \E j \in (i + 1)..Len(l) : l[j].ev \in {"store", "delete"} /\ l[j].key = k

\* invocation i of l stored v under the key of its own destructor, and
\* nothing stored under that key or deleted it afterwards
ReStored(l, i, j) ==
    /\ i < j
    /\ IsDtorCall(l[i])
    /\ l[j].ev = "store" /\ l[j].key = l[i].key /\ l[j].val # None
    /\ \A m \in (i + 1)..(j - 1) : l[m].ev \notin {"call", "return"}
    /\ ~TouchedSince(l, l[i].key, j)

\* C16: when the driver invokes the destructor of key k for thread t, t has
\* no value under k, and a load of k by the destructor returns NULL, until
\* the destructor stores under k; when it re-stores a value under k, the same
\* destructor is invoked again with that value in a later pass.
C16_RemoveBeforeInvoke ==
    /\ (pc = "tls_dtor" /\ ~TouchedSince(log, dtor[1][3], LastCall(log))) =>
          /\ log[LastCall(log)] =
                Event("call", dtor[1][3], <<dtor[1][2]>>, dtor[1][1])
          /\ dtor[1][3] \in DOMAIN keys
          /\ thread_id \notin DOMAIN keys[dtor[1][3]].data
          /\ (ret.op = "load" /\ ret.key = dtor[1][3]
                /\ log[Len(log)].ev = "load") =>
                (ret.err = "none" /\ ret.val = NULL /\ ret.thread = thread_id)
    /\ Drained =>
          \A i, j \in 1..Len(log) :
              ReStored(log, i, j) =>
                  \E m \in (j + 1)..Len(log) :
                      /\ log[m] = Event("call", log[i].key, log[j].val, log[i].fn)
                      /\ \E r \in (j + 1)..(m - 1) :
                            log[r].ev = "return" /\ log[r].key = log[i].key

\* C16 witness: the driver returned after a destructor stored a new value
\* under its own key and was invoked again with it
C16_Witness ==
    /\ Drained
    /\ \E i, j \in 1..Len(log) :
          /\ ReStored(log, i, j)
          /\ log[j].val # log[i].val
          /\ \E u \in Threads : HoldsValue(keys, u)
----------------------------------------------------------------------------
(* What the driver itself changes (SpecExit) *)

\* a step of the multi-pass driver itself: its start, its resumption after a
\* guest function returned, or one of its scans
DriverStep ==
    \/ \E t \in Threads : run_tls_dtors_for_active_thread(t)
    \/ global_dtor_returns
    \/ \E has_terminated \in BOOLEAN : first_fetch(has_terminated)
    \/ tls_dtor_returns

\* C17: the steps of the draining driver and of fetch_tls_dtor for thread t
\* remove no registry entry, change no destructor reference, leave the key
\* counter and the global destructors alone and change no value of another
\* thread; all they do to the registry is clear values of t.
C17_DriverFrame ==
    [][DriverStep =>
         /\ DOMAIN keys' = DOMAIN keys
         /\ next_key' = next_key
         /\ global_dtors' = global_dtors
         /\ \A k \in DOMAIN keys :
               /\ keys'[k].dtor = keys[k].dtor
               /\ DOMAIN keys'[k].data \subseteq DOMAIN keys[k].data
               /\ \A u \in DOMAIN keys'[k].data :
                     keys'[k].data[u] = keys[k].data[u]
               /\ \A u \in DOMAIN keys[k].data :
                     u # thread_id' => u \in DOMAIN keys'[k].data]_vars

\* C17 witness: a destructor of a thread that has a global destructor runs,
\* its value taken from a key under which the other thread still has one
C17_Witness ==
    /\ pc = "tls_dtor"
    /\ thread_id \in DOMAIN global_dtors
    /\ thread_id \notin DOMAIN keys[dtor[1][3]].data
    /\ \E u \in Threads : u # thread_id /\ u \in DOMAIN keys[dtor[1][3]].data
----------------------------------------------------------------------------
(* A failing set_global_dtor (SpecDrain) *)

\* C18: a set_global_dtor call that fails, with the UB or with the
\* unsupported error, leaves the global destructors unchanged: the pair the
\* thread had registered is still the one registered, which a later drain
\* invokes.
C18_FailedSetGlobalDtorKeepsSlot ==
    [][\A t \in Threads, d \in GlobalInstances, data \in Scalars :
         (set_global_dtor(t, d, data) /\ ret'.err # "none") =>
             UNCHANGED global_dtors]_vars
----------------------------------------------------------------------------
(* No destructor on a null value (Spec) *)

\* the assertion "Data can't be NULL when dtor is called!" has failed
NullAssertionFailed == pc = "panic" /\ dtor # None /\ dtor[1][2] = NULL

----------------------------------------------------------------------------
(* Draining twice (Spec) *)

\* C20: starting the driver of the platform for a thread that is already in
\* dtors_running aborts on the driver's assertion, which is neither the UB nor
\* the unsupported error, before any destructor or callback is invoked and
\* before any value is taken; a driver that does start draining a thread
\* finds it outside the set and puts it in, so no thread is drained twice.
C20_DoubleDrainAborts ==
    [][\A t \in Threads :
         DriverStarts(t) =>
            IF t \in dtors_running
            THEN /\ pc' = "panic"
                 /\ ret' = ret
                 /\ log' = <<>>
                 /\ UNCHANGED <<keys, global_dtors, next_key, dtors_running, dtor>>
            ELSE pc' # "panic" => t \in dtors_running']_vars

\* C20 witness: the driver was started again for a thread in dtors_running
\* that still has a value under a key with a destructor, and aborted
C20_Witness ==
    /\ pc = "panic"
    /\ ret.err # "pending"
    /\ thread_id \in dtors_running
    /\ \E k \in DOMAIN keys :
          keys[k].dtor # None /\ thread_id \in DOMAIN keys[k].data
====
